---------------------------- MODULE Spec2Model ----------------------------
(***************************************************************************)
(* Website financing analyzer: the /analyze request handlers of the        *)
(* service, WebsiteAnalyzer.analyzeWebsite, the text normalization chain   *)
(* of fetchWithAxios and the keyword scorer analyzeContent.                *)
(*                                                                         *)
(* A text is a sequence of characters.  A character is a string: an ASCII  *)
(* character stands for itself ("a", " ", "\n"), any other code point is   *)
(* written by its name "U+XXXX".  Confidence values are kept in            *)
(* thousandths (0.4 is 400, 1.0 is 1000), the precision of toFixed(3).     *)
(***************************************************************************)
EXTENDS Integers, Sequences, FiniteSets, TLC

VARIABLES
    pc,          \* position of the request being served: "idle", "fetching", "done"
    req,         \* the request: method, body/query fields
    fetched,     \* pages requested with axios.get while serving the request
    calls,       \* number of analyzeWebsite calls made while serving the request
    data,        \* what axios.get returned for the request: the page or the failure
    result,      \* what analyzeWebsite returned to the handler, or the error it threw
    response,    \* the answer written with res.status(..).json(..)
    text,        \* scorer harness: the content handed to analyzeContent
    analysis,    \* scorer harness: what analyzeContent returned for text
    raw,         \* normalizer harness: the body text before the chain
    normalized,  \* normalizer harness: the chain's output for raw
    analyzer,    \* the shared WebsiteAnalyzer instance: its two keyword arrays
    inflight     \* concurrent calls: each analyzeWebsite call's position and locals

vars ==
    <<pc, req, fetched, calls, data, result, response, text, analysis, raw,
      normalized, analyzer, inflight>>
serverVars == <<pc, req, fetched, calls, data, result, response>>
scorerVars == <<text, analysis>>
normVars == <<raw, normalized>>
sharedVars == <<analyzer, inflight>>

----------------------------------------------------------------------------
(* Bounds of the model                                                     *)

MaxRawLen == 3     \* characters of a raw text in the normalizer harness
MaxFrags == 3      \* fragments of a text in the scorer harness
MaxElems == 2      \* elements of a served page's markup
MaxLinks == 3      \* same-origin links a served page carries
MaxCalls == 2      \* analyzeWebsite calls in flight together

----------------------------------------------------------------------------
(* Characters and strings                                                  *)

Chars(s) == [i \in 1..Len(s) |-> SubSeq(s, i, i)]

UpperAZ == "ABCDEFGHIJKLMNOPQRSTUVWXYZ"
LowerAZ == "abcdefghijklmnopqrstuvwxyz"

RECURSIVE Flatten(_)
Flatten(ss) == IF ss = <<>> THEN <<>> ELSE Head(ss) \o Flatten(Tail(ss))

----------------------------------------------------------------------------
(* The normalization chain of fetchWithAxios                               *)

\* String.prototype.normalize("NFKD"), one code point: its full
\* compatibility decomposition.  The combining marks that occur (U+0301,
\* U+0308) share combining class 230, so no canonical reordering applies.
NfkdChar(c) ==
    CASE c = "U+00A0" -> <<" ">>                \* NO-BREAK SPACE
      [] c = "U+2003" -> <<" ">>                \* EM SPACE
      [] c = "U+202F" -> <<" ">>                \* NARROW NO-BREAK SPACE
      [] c = "U+3000" -> <<" ">>                \* IDEOGRAPHIC SPACE
      [] c = "U+00A8" -> <<" ", "U+0308">>      \* DIAERESIS
      [] c = "U+00C9" -> <<"E", "U+0301">>      \* E WITH ACUTE
      [] c = "U+00E9" -> <<"e", "U+0301">>      \* e WITH ACUTE
      [] c = "U+FB01" -> <<"f", "i">>           \* LATIN SMALL LIGATURE FI
      [] c = "U+FE58" -> <<"U+2014">>           \* SMALL EM DASH
      [] OTHER -> <<c>>

Nfkd(t) == Flatten([i \in 1..Len(t) |-> NfkdChar(t[i])])

\* String.prototype.toLowerCase, one code point.
LowerChar(c) ==
    IF \E i \in 1..Len(UpperAZ) : SubSeq(UpperAZ, i, i) = c
    THEN LET i == CHOOSE j \in 1..Len(UpperAZ) : SubSeq(UpperAZ, j, j) = c
         IN  SubSeq(LowerAZ, i, i)
    ELSE IF c = "U+00C9" THEN "U+00E9" ELSE c

ToLowerCase(t) == [i \in 1..Len(t) |-> LowerChar(t[i])]

\* The class replaced by " ": U+00A0, U+1680, U+180E, U+2000..U+200B,
\* U+202F, U+205F, U+3000.
UnicodeSpaces ==
    {"U+00A0", "U+1680", "U+180E", "U+2000", "U+2001", "U+2002", "U+2003",
     "U+2004", "U+2005", "U+2006", "U+2007", "U+2008", "U+2009", "U+200A",
     "U+200B", "U+202F", "U+205F", "U+3000"}

\* The class replaced by "-": en dash and em dash.
LongDashes == {"U+2013", "U+2014"}

\* The regular expression class \s, which trim() strips as well.
WhiteSpace ==
    {" ", "\t", "\n", "\f", "\r", "U+000B", "U+00A0", "U+1680", "U+2000",
     "U+2001", "U+2002", "U+2003", "U+2004", "U+2005", "U+2006", "U+2007",
     "U+2008", "U+2009", "U+200A", "U+2028", "U+2029", "U+202F", "U+205F",
     "U+3000", "U+FEFF"}

SpaceChar(c) == IF c \in UnicodeSpaces THEN " " ELSE c
ReplaceUnicodeSpaces(t) == [i \in 1..Len(t) |-> SpaceChar(t[i])]

DashChar(c) == IF c \in LongDashes THEN "-" ELSE c

\* The chain without the dash replacement, as src/websiteanalyzer.js:218-221.
KeepDashes(t) == t

\* replace(/[en dash, em dash]/g, "-")
ReplaceDashes(t) == [i \in 1..Len(t) |-> DashChar(t[i])]

\* replace(/\s+/g, " "): every maximal run of white space becomes one space.
RECURSIVE CollapseFrom(_, _)
CollapseFrom(t, i) ==
    IF i > Len(t) THEN <<>>
    ELSE IF t[i] \in WhiteSpace
         THEN IF i > 1 /\ t[i - 1] \in WhiteSpace
              THEN CollapseFrom(t, i + 1)
              ELSE <<" ">> \o CollapseFrom(t, i + 1)
         ELSE <<t[i]>> \o CollapseFrom(t, i + 1)

CollapseWhitespace(t) == CollapseFrom(t, 1)

\* String.prototype.trim.
RECURSIVE TrimStart(_)
TrimStart(t) ==
    IF t /= <<>> /\ Head(t) \in WhiteSpace THEN TrimStart(Tail(t)) ELSE t

RECURSIVE TrimEnd(_)
TrimEnd(t) ==
    IF t /= <<>> /\ t[Len(t)] \in WhiteSpace
    THEN TrimEnd(SubSeq(t, 1, Len(t) - 1))
    ELSE t

Trim(t) == TrimEnd(TrimStart(t))

\* The chain with the white-space collapse moved before the Unicode-space
\* replacement: U+180E and U+200B are not in \s, so the spaces they turn
\* into are no longer collapsed.
NormalizeCollapseFirst(t) ==
    Trim(ReplaceDashes(ReplaceUnicodeSpaces(CollapseWhitespace(ToLowerCase(Nfkd(t))))))

\* .normalize("NFKD").toLowerCase().replace(spaces).replace(dashes)
\* .replace(/\s+/g, " ").trim()
Normalize(t) ==
    Trim(CollapseWhitespace(ReplaceDashes(ReplaceUnicodeSpaces(ToLowerCase(Nfkd(t))))))

----------------------------------------------------------------------------
(* The keyword taxonomy of the WebsiteAnalyzer constructor                 *)

financingKeywords ==
    << "financing", "finance", "apply now", "credit", "loan",
       "payment plan", "installment", "monthly payment",
       "deferred payment", "credit score", "no credit check",
       "bad credit", "credit approval", "instant credit",
       "application", "pre-qualify", "get approved",
       "buy now pay later", "bnpl", "0% apr", "interest free",
       "special financing", "finance options", "payment options",
       "affirm", "klarna", "afterpay", "sezzle", "paypal credit",
       "finance available",
       "quote", "instant quote", "get a quote", "request a quote",
       "free quote", "online quote", "quick quote", "quote now",
       "get pricing", "see pricing", "get an instant quote",
       "request estimate", "get estimate" >>

highConfidenceKeywords ==
    << "apply now", "financing", "credit approval",
       "payment plan", "buy now pay later",
       "monthly payment", "affirm", "klarna",
       "afterpay", "finance options", "get approved",
       "instant quote", "get a quote", "request a quote",
       "quote now", "get an instant quote" >>

\* includes asked of the full keyword list.
IsListedKeyword(keyword) ==
    \E i \in 1..Len(financingKeywords) : financingKeywords[i] = keyword

\* this.highConfidenceKeywords.includes(keyword)
IsHighConfidence(keyword) ==
    \E i \in 1..Len(highConfidenceKeywords) : highConfidenceKeywords[i] = keyword

\* The patterns new RegExp(escaped, "gi") compares with: the keywords hold
\* no character of the escaped class, so each pattern is its keyword, and
\* flag i compares both sides case-folded.
keywordPatterns ==
    [k \in 1..Len(financingKeywords) |-> ToLowerCase(Chars(financingKeywords[k]))]

----------------------------------------------------------------------------
(* The scorer analyzeContent                                               *)

HighWeight == 400        \* 0.4 per occurrence of a high-confidence keyword
StandardWeight == 150    \* 0.15 per occurrence of any other keyword
MaxConfidence == 1000    \* Math.min(confidenceScore, 1.0)
MinDistinct == 2         \* matchedKeywords.length >= 2

\* The class \w.
WordChars ==
    {SubSeq(UpperAZ, i, i) : i \in 1..Len(UpperAZ)}
        \cup {SubSeq(LowerAZ, i, i) : i \in 1..Len(LowerAZ)}
        \cup {"0", "1", "2", "3", "4", "5", "6", "7", "8", "9", "_"}

\* The count with the pattern set between word boundaries, as
\* src/websiteanalyzer.js:234 builds it.
RECURSIVE CountWholeWordsFrom(_, _, _)
CountWholeWordsFrom(lc, pat, i) ==
    IF i + Len(pat) - 1 > Len(lc) THEN 0
    ELSE IF /\ SubSeq(lc, i, i + Len(pat) - 1) = pat
            /\ (i = 1 \/ lc[i - 1] \notin WordChars)
            /\ (i + Len(pat) - 1 = Len(lc) \/ lc[i + Len(pat)] \notin WordChars)
         THEN 1 + CountWholeWordsFrom(lc, pat, i + Len(pat))
         ELSE CountWholeWordsFrom(lc, pat, i + 1)

\* content.match(regex) with flag g: the occurrences of the pattern found
\* scanning left to right, each search resuming after the previous match.
RECURSIVE CountFrom(_, _, _)
CountFrom(lc, pat, i) ==
    IF i + Len(pat) - 1 > Len(lc) THEN 0
    ELSE IF lc[i] = pat[1] /\ SubSeq(lc, i, i + Len(pat) - 1) = pat
         THEN 1 + CountFrom(lc, pat, i + Len(pat))
         ELSE CountFrom(lc, pat, i + 1)

MatchCount(content, k) == CountFrom(ToLowerCase(content), keywordPatterns[k], 1)

Min(a, b) == IF a < b THEN a ELSE b

\* The forEach over financingKeywords: acc carries matchedKeywords,
\* confidenceScore and highConfidenceMatches.
RECURSIVE ScanKeywords(_, _, _)
ScanKeywords(lc, k, acc) ==
    IF k > Len(financingKeywords) THEN acc
    ELSE LET keyword == financingKeywords[k]
             n == CountFrom(lc, keywordPatterns[k], 1)
             high == IsHighConfidence(keyword)
         IN  IF n = 0 THEN ScanKeywords(lc, k + 1, acc)
             ELSE ScanKeywords(lc, k + 1,
                    [matchedKeywords |-> Append(acc.matchedKeywords,
                                           [keyword |-> keyword, count |-> n,
                                            isHighConfidence |-> high]),
                     confidenceScore |-> acc.confidenceScore
                        + (IF high THEN HighWeight ELSE StandardWeight) * n,
                     highConfidenceMatches |-> acc.highConfidenceMatches
                        + (IF high THEN n ELSE 0)])

Scanned(content) ==
    ScanKeywords(ToLowerCase(content), 1,
                 [matchedKeywords |-> <<>>, confidenceScore |-> 0,
                  highConfidenceMatches |-> 0])

\* The final score without Math.min.
UncappedScore(score) == score

\* confidenceScore = Math.min(confidenceScore, 1.0)
CapScore(score) == Min(score, MaxConfidence)

\* The rule with the threshold of three distinct keywords that
\* src/websiteanalyzer.js:255-257 has.
DetectedAtThree(matched, highMatches) ==
    Len(matched) > 0 /\ (highMatches > 0 \/ Len(matched) >= 3)

\* matchedKeywords.length > 0 && (highConfidenceMatches > 0 || length >= 2)
IsFinancingDetected(matched, highMatches) ==
    Len(matched) > 0 /\ (highMatches > 0 \/ Len(matched) >= MinDistinct)

analyzeContent(content) ==
    LET s == Scanned(content)
    IN  [isFinancingDetected |->
            IsFinancingDetected(s.matchedKeywords, s.highConfidenceMatches),
         confidence |-> CapScore(s.confidenceScore),
         matchedKeywords |-> s.matchedKeywords]

----------------------------------------------------------------------------
(* The web as the service sees it                                          *)

\* The elements a served page's markup is made of.
Elements ==
    { [tag |-> "p", chars |-> Chars("Apply Now ") \o <<"U+2014">>
                                \o Chars(" financing available")],
      [tag |-> "p", chars |-> Chars("quote now")],
      [tag |-> "p", chars |-> Chars(" get pricing")],
      [tag |-> "p", chars |-> Chars("Loan")],
      [tag |-> "p", chars |-> Chars(" Hello") \o <<"U+00A0", "\n">>
                                \o Chars("World ")],
      [tag |-> "script", chars |-> Chars("klarna")] }

Markups == UNION { [1..n -> Elements] : n \in 0..MaxElems }

\* What axios.get resolves with: a page, its markup and the number of
\* same-origin links (anchors without text) it carries.
Pages == [ok : {TRUE}, markup : Markups, links : 0..MaxLinks, failure : {""}]

\* What makes axios.get reject.
Failures == {"timeout", "ENOTFOUND", "status 404"}

\* $("script, style, noscript").remove(); $("body").text()
RemovedTags == {"script", "style", "noscript"}

RECURSIVE BodyText(_)
BodyText(markup) ==
    IF markup = <<>> THEN <<>>
    ELSE (IF Head(markup).tag \in RemovedTags THEN <<>> ELSE Head(markup).chars)
         \o BodyText(Tail(markup))

\* The body text with script elements kept.
ContentWithScripts(page) ==
    Normalize(Flatten([i \in 1..Len(page.markup) |-> page.markup[i].chars]))

\* What fetchWithAxios returns for a page axios resolved with.
Content(page) == Normalize(BodyText(page.markup))

----------------------------------------------------------------------------
(* new URL(url)                                                            *)

AlphaChars ==
    {SubSeq(UpperAZ, i, i) : i \in 1..Len(UpperAZ)}
        \cup {SubSeq(LowerAZ, i, i) : i \in 1..Len(LowerAZ)}

SchemeChars == AlphaChars \cup {"0", "1", "2", "3", "4", "5", "6", "7", "8", "9",
                                "+", "-", "."}

SpecialSchemes == {Chars("http"), Chars("https"), Chars("ftp"), Chars("ws"),
                   Chars("wss")}

\* The scheme of u, lower-cased, or <<>> when u starts with no scheme.
SchemeOf(u) ==
    IF \E i \in 2..Len(u) :
          /\ u[i] = ":"
          /\ u[1] \in AlphaChars
          /\ \A j \in 2..(i - 1) : u[j] \in SchemeChars
    THEN LET i == CHOOSE k \in 2..Len(u) :
                    u[k] = ":" /\ \A j \in 1..(k - 1) : u[j] /= ":"
         IN  ToLowerCase(SubSeq(u, 1, i - 1))
    ELSE <<>>

RECURSIVE SkipSlashes(_)
SkipSlashes(t) ==
    IF t /= <<>> /\ Head(t) \in {"/", "\\"} THEN SkipSlashes(Tail(t)) ELSE t

RECURSIVE HostOf(_)
HostOf(t) ==
    IF t = <<>> \/ Head(t) \in {"/", "\\", "?", "#"} THEN <<>>
    ELSE <<Head(t)>> \o HostOf(Tail(t))

ForbiddenHostChars == {" ", "<", ">", "^", "|", "%"}

\* The parse accepts everything without asking for a scheme.
AnyUrlParses(url) == TRUE

\* new URL(url) does not throw: url, stripped of leading and trailing
\* spaces, starts with a scheme, and a special scheme is followed by a
\* non-empty host free of forbidden code points.
UrlParses(url) ==
    LET u == Trim(url)
        scheme == SchemeOf(u)
        host == HostOf(SkipSlashes(SubSeq(u, Len(scheme) + 2, Len(u))))
    IN  /\ scheme /= <<>>
        /\ scheme \in SpecialSchemes =>
              /\ host /= <<>>
              /\ \A i \in 1..Len(host) : host[i] \notin ForbiddenHostChars

\* The schemes the http adapter of axios serves.
HttpSchemes == {Chars("http"), Chars("https")}

----------------------------------------------------------------------------
(* The state after construction                                            *)

NoRequest == [method |-> "", hasUrl |-> FALSE, url |-> <<>>, maxPages |-> 0]

NoData == [ok |-> FALSE, markup |-> <<>>, links |-> 0, failure |-> ""]

NoResult ==
    [returned |-> FALSE, thrown |-> "", classification |-> "",
     confidence |-> 0, matchedKeywords |-> <<>>, contentLength |-> 0,
     fullText |-> <<>>]

NoResponse ==
    [status |-> 0, error |-> "", details |-> "", classification |-> "",
     confidence |-> 0, matchedKeywords |-> <<>>]

NoAnalysis ==
    [done |-> FALSE, content |-> <<>>, isFinancingDetected |-> FALSE,
     confidence |-> 0, matchedKeywords |-> <<>>]

NotNormalized == [done |-> FALSE, out |-> <<>>]

\* The analyzeWebsite calls that may be in flight together.
Calls == 1..MaxCalls

\* The instance new WebsiteAnalyzer() leaves: nothing but the two arrays.
Constructed ==
    [financingKeywords |-> financingKeywords,
     highConfidenceKeywords |-> highConfidenceKeywords]

\* A call that has not been made: its position, its url argument, what
\* axios gave it, its local content and what it returned.  overlapped is
\* history: whether another call was in flight when this one completed.
NoCall ==
    [pc |-> "idle", url |-> <<>>, data |-> NoData, content |-> <<>>,
     result |-> NoResult, overlapped |-> FALSE]

Init ==
    /\ pc = "idle"
    /\ req = NoRequest
    /\ fetched = <<>>
    /\ calls = 0
    /\ data = NoData
    /\ result = NoResult
    /\ response = NoResponse
    /\ text = <<>>
    /\ analysis = NoAnalysis
    /\ raw = <<>>
    /\ normalized = NotNormalized
    /\ analyzer = Constructed
    /\ inflight = [c \in Calls |-> NoCall]

----------------------------------------------------------------------------
(* The /analyze handlers                                                   *)

\* The url field a request may carry.
UrlInputs ==
    { <<>>, Chars("a.io"), Chars("not a url"), Chars("http://"),
      Chars("http://a.io"), Chars("mailto:a") }

\* The page budgets a caller may ask for in a maxPages field.  Both
\* handlers destructure url alone, and analyzeWebsite takes url alone.
Budgets == {0, 1, 5}

Requests ==
    { r \in [method : {"POST", "GET"}, hasUrl : BOOLEAN, url : UrlInputs,
             maxPages : Budgets] : ~r.hasUrl => r.url = <<>> }

\* res.status(400).json({error, status: "error"})
Rejection(error) == [NoResponse EXCEPT !.status = 400, !.error = error]

\* if (!url): the field is absent or the empty string.
UrlMissing(r) == ~r.hasUrl \/ r.url = <<>>

\* One call issues the request twice.
IssuedFetchesWithRetry(url) == <<url, url>>

\* The axios.get calls one analyzeWebsite(url) issues: fetchWithAxios is
\* called once and requests url once.
IssuedFetches(url) == <<url>>

\* The handler up to its first suspension: the two validations, then
\* analyzer.analyzeWebsite(url), which runs into fetchWithAxios and issues
\* axios.get(url) before it awaits.
Handle(r, missingError) ==
    /\ pc \in {"idle", "done"}
    /\ req' = r
    /\ data' = NoData
    /\ result' = NoResult
    /\ IF UrlMissing(r)
       THEN /\ response' = Rejection(missingError)
            /\ pc' = "done"
            /\ calls' = 0
            /\ fetched' = <<>>
       ELSE IF ~UrlParses(r.url)
       THEN /\ response' = Rejection("Invalid URL format")
            /\ pc' = "done"
            /\ calls' = 0
            /\ fetched' = <<>>
       ELSE /\ response' = NoResponse
            /\ pc' = "fetching"
            /\ calls' = 1
            /\ fetched' = IssuedFetches(r.url)
    /\ UNCHANGED <<scorerVars, normVars, sharedVars>>

PostAnalyze(r) == r.method = "POST" /\ Handle(r, "URL is required")

GetAnalyze(r) == r.method = "GET" /\ Handle(r, "URL parameter required")

\* The branches of the conditional exchanged.
ClassificationSwapped(detected) == IF detected THEN "Non User" ELSE "Proactive"

\* analysis.isFinancingDetected ? "Proactive" : "Non User"
Classification(detected) == IF detected THEN "Proactive" ELSE "Non User"

\* The object analyzeWebsite returns for the content fetchWithAxios gave.
ResultFor(content) ==
    LET a == analyzeContent(content)
    IN  [returned |-> TRUE, thrown |-> "",
         classification |-> Classification(a.isFinancingDetected),
         confidence |-> a.confidence,
         matchedKeywords |-> a.matchedKeywords,
         contentLength |-> Len(content),
         fullText |-> content]

\* A failed fetch taken as a page without content.
EmptyPageOnFailure(failure) == ResultFor(<<>>)

\* A failed fetch: fetchWithAxios throws "Network error: ..", which
\* analyzeWebsite catches and throws again as "Failed to analyze website: ..".
ThrownOnFailure(failure) ==
    [NoResult EXCEPT
       !.thrown = "Failed to analyze website: Network error: " \o failure]

\* The handler after the await: the 200 response built from a returned
\* result, the 500 response of the catch block for a thrown error.
ResponseFor(r) ==
    IF r.returned
    THEN [NoResponse EXCEPT !.status = 200,
                            !.classification = r.classification,
                            !.confidence = r.confidence,
                            !.matchedKeywords = r.matchedKeywords]
    ELSE [NoResponse EXCEPT !.status = 500,
                            !.error = "Failed to analyze website",
                            !.details = r.thrown]

\* axios.get resolves: fetchWithAxios normalizes the body text,
\* analyzeWebsite scores it, the handler answers 200.
FetchReturns(page) ==
    /\ pc = "fetching"
    /\ SchemeOf(Trim(req.url)) \in HttpSchemes
    /\ data' = page
    /\ result' = ResultFor(Content(page))
    /\ response' = ResponseFor(result')
    /\ pc' = "done"
    /\ UNCHANGED <<req, fetched, calls, scorerVars, normVars, sharedVars>>

\* axios.get rejects (timeout, DNS failure, non-2xx status, unsupported
\* protocol).
FetchFails(failure) ==
    /\ pc = "fetching"
    /\ data' = [NoData EXCEPT !.failure = failure]
    /\ result' = ThrownOnFailure(failure)
    /\ response' = ResponseFor(result')
    /\ pc' = "done"
    /\ UNCHANGED <<req, fetched, calls, scorerVars, normVars, sharedVars>>

Next ==
    \/ \E r \in Requests : PostAnalyze(r)
    \/ \E r \in Requests : GetAnalyze(r)
    \/ \E page \in Pages : FetchReturns(page)
    \/ \E failure \in Failures : FetchFails(failure)

Spec == Init /\ [][Next]_vars

----------------------------------------------------------------------------
(* Scorer harness: analyzeContent applied to texts built from fragments    *)

Fragments ==
    { Chars("Apply Now"), Chars("financing"), Chars("loan"),
      Chars("quote now"), Chars("get pricing"), Chars("re"), Chars(" ") }

AppendFragment(f) ==
    /\ Len(text) < MaxFrags
    /\ text' = Append(text, f)
    /\ UNCHANGED <<analysis, serverVars, normVars, sharedVars>>

AnalyzeText ==
    /\ analysis' = [done |-> TRUE, content |-> Flatten(text)]
                     @@ analyzeContent(Flatten(text))
    /\ UNCHANGED <<text, serverVars, normVars, sharedVars>>

ScoreInit == Init

ScoreNext == (\E f \in Fragments : AppendFragment(f)) \/ AnalyzeText

SpecScore == ScoreInit /\ [][ScoreNext]_vars

\* The fragments that spell a keyword of the taxonomy.
KeywordFragments ==
    { f \in Fragments :
        \E k \in 1..Len(keywordPatterns) : ToLowerCase(f) = keywordPatterns[k] }

NonEmpty(piece) == piece /= <<>>

\* One more occurrence of a keyword put into the text, o characters into
\* its j-th fragment.
InsertKeyword(f, j, o) ==
    /\ j \in 1..Len(text)
    /\ o \in 0..Len(text[j])
    /\ LET pieces == SelectSeq(<<SubSeq(text[j], 1, o), f,
                                 SubSeq(text[j], o + 1, Len(text[j]))>>, NonEmpty)
           edited == SubSeq(text, 1, j - 1) \o pieces
                        \o SubSeq(text, j + 1, Len(text))
       IN  /\ Len(edited) <= MaxFrags
           /\ text' = edited
    /\ UNCHANGED <<analysis, serverVars, normVars, sharedVars>>

\* A text is built, scored once, and then one more keyword occurrence is
\* put into the scored text.
InsertNext ==
    \/ \E f \in Fragments : ~analysis.done /\ AppendFragment(f)
    \/ ~analysis.done /\ AnalyzeText
    \/ \E f \in KeywordFragments : \E j \in 1..Len(text) :
          \E o \in 0..Len(text[j]) :
             /\ analysis.done
             /\ analysis.content = Flatten(text)
             /\ InsertKeyword(f, j, o)

SpecInsert == Init /\ [][InsertNext]_vars

----------------------------------------------------------------------------
(* Normalizer harness: the chain applied to raw texts                      *)

RawAlphabet ==
    { "A", "b", " ", "\n", "-", "U+00A0", "U+200B", "U+2013", "U+2014",
      "U+00A8", "U+00C9", "U+FB01" }

KeyIn(c) ==
    /\ Len(raw) < MaxRawLen
    /\ raw' = Append(raw, c)
    /\ normalized' = NotNormalized
    /\ UNCHANGED <<serverVars, scorerVars, sharedVars>>

NormalizeRaw ==
    /\ ~normalized.done
    /\ normalized' = [done |-> TRUE, out |-> Normalize(raw)]
    /\ UNCHANGED <<raw, serverVars, scorerVars, sharedVars>>

NormInit == Init

NormNext == (\E c \in RawAlphabet : KeyIn(c)) \/ NormalizeRaw

SpecNorm == NormInit /\ [][NormNext]_vars

----------------------------------------------------------------------------
(* Concurrent calls of analyzeWebsite on the one analyzer instance         *)

\* The urls the handlers pass to analyzer.analyzeWebsite.
CallUrls == {Chars("http://a.io")}

\* What axios.get resolves with for the concurrent calls: pages of one
\* short element, with a high-confidence keyword, with a standard keyword,
\* and with a keyword in a script only.
Sites ==
    { page \in Pages :
        /\ page.links = 0
        /\ Len(page.markup) = 1
        /\ page.markup[1].chars \in
              {Chars("quote now"), Chars("Loan"), Chars("klarna")} }

\* this.highConfidenceKeywords.includes(keyword), read from the instance.
IncludesHigh(inst, keyword) ==
    \E i \in 1..Len(inst.highConfidenceKeywords) :
        inst.highConfidenceKeywords[i] = keyword

\* this.financingKeywords.forEach(..), read from the instance as it is when
\* the call resumes.
RECURSIVE ScanInstance(_, _, _, _)
ScanInstance(inst, lc, k, acc) ==
    IF k > Len(inst.financingKeywords) THEN acc
    ELSE LET keyword == inst.financingKeywords[k]
             n == CountFrom(lc, ToLowerCase(Chars(keyword)), 1)
             high == IncludesHigh(inst, keyword)
         IN  IF n = 0 THEN ScanInstance(inst, lc, k + 1, acc)
             ELSE ScanInstance(inst, lc, k + 1,
                    [matchedKeywords |-> Append(acc.matchedKeywords,
                                           [keyword |-> keyword, count |-> n,
                                            isHighConfidence |-> high]),
                     confidenceScore |-> acc.confidenceScore
                        + (IF high THEN HighWeight ELSE StandardWeight) * n,
                     highConfidenceMatches |-> acc.highConfidenceMatches
                        + (IF high THEN n ELSE 0)])

\* What analyzeWebsite returns for content, scored by the instance inst.
ResultWith(inst, content) ==
    LET s == ScanInstance(inst, ToLowerCase(content), 1,
                          [matchedKeywords |-> <<>>, confidenceScore |-> 0,
                           highConfidenceMatches |-> 0])
    IN  [returned |-> TRUE, thrown |-> "",
         classification |-> Classification(
             IsFinancingDetected(s.matchedKeywords, s.highConfidenceMatches)),
         confidence |-> CapScore(s.confidenceScore),
         matchedKeywords |-> s.matchedKeywords,
         contentLength |-> Len(content),
         fullText |-> content]

\* The calls between their start and their completion.
InFlight == {c \in Calls : inflight[c].pc \in {"fetching", "fetched", "failed"}}

\* The content kept in one place for all calls: a call resuming while
\* another call's content waits scores that content.
SharedContent(c) ==
    IF \E d \in Calls \ {c} : inflight[d].pc = "fetched"
    THEN inflight[CHOOSE d \in Calls \ {c} : inflight[d].pc = "fetched"].content
    ELSE inflight[c].content

\* const content = await this.fetchWithAxios(url): a local of the call.
OwnContent(c) == inflight[c].content

\* analyzeWebsite(url) runs into fetchWithAxios, which issues axios.get(url)
\* and suspends.
StartCall(c, url) ==
    /\ inflight[c].pc \in {"idle", "returned"}
    /\ inflight' = [inflight EXCEPT ![c] = [NoCall EXCEPT !.pc = "fetching",
                                                          !.url = url]]
    /\ UNCHANGED <<analyzer, serverVars, scorerVars, normVars>>

\* axios.get resolves for call c: fetchWithAxios resumes, extracts and
\* normalizes the body text and returns it; analyzeWebsite is still
\* suspended at its await.
AxiosResolves(c, page) ==
    /\ inflight[c].pc = "fetching"
    /\ inflight' = [inflight EXCEPT ![c].pc = "fetched",
                                    ![c].data = page,
                                    ![c].content = Content(page)]
    /\ UNCHANGED <<analyzer, serverVars, scorerVars, normVars>>

\* axios.get rejects for call c: fetchWithAxios throws its network error.
AxiosRejects(c, failure) ==
    /\ inflight[c].pc = "fetching"
    /\ inflight' = [inflight EXCEPT ![c].pc = "failed",
                                    ![c].data = [NoData EXCEPT !.failure = failure]]
    /\ UNCHANGED <<analyzer, serverVars, scorerVars, normVars>>

\* analyzeWebsite resumes with the content: analyzeContent, then the
\* returned object.
AnalyzeResumes(c) ==
    /\ inflight[c].pc = "fetched"
    /\ inflight' = [inflight EXCEPT
                       ![c].pc = "returned",
                       ![c].result = ResultWith(analyzer, OwnContent(c)),
                       ![c].overlapped = (InFlight \ {c} /= {})]
    /\ UNCHANGED <<analyzer, serverVars, scorerVars, normVars>>

\* analyzeWebsite resumes in its catch block and throws again.
CatchResumes(c) ==
    /\ inflight[c].pc = "failed"
    /\ inflight' = [inflight EXCEPT
                       ![c].pc = "returned",
                       ![c].result = ThrownOnFailure(inflight[c].data.failure),
                       ![c].overlapped = (InFlight \ {c} /= {})]
    /\ UNCHANGED <<analyzer, serverVars, scorerVars, normVars>>

ConcurrentNext ==
    \/ \E c \in Calls : \E url \in CallUrls : StartCall(c, url)
    \/ \E c \in Calls : \E page \in Sites : AxiosResolves(c, page)
    \/ \E c \in Calls : \E failure \in Failures : AxiosRejects(c, failure)
    \/ \E c \in Calls : AnalyzeResumes(c)
    \/ \E c \in Calls : CatchResumes(c)

SpecConcurrent == Init /\ [][ConcurrentNext]_vars

----------------------------------------------------------------------------
(* Properties                                                              *)

AllKeywords == {financingKeywords[k] : k \in 1..Len(financingKeywords)}

HighKeywords == {highConfidenceKeywords[k] : k \in 1..Len(highConfidenceKeywords)}

\* Each keyword as lower-case characters.
Spelled == [kw \in AllKeywords |-> ToLowerCase(Chars(kw))]

\* The places of the lower-case text lc where keyword kw occurs, compared
\* character by character.
PositionsIn(lc, kw) ==
    { i \in 1..(Len(lc) - Len(Spelled[kw]) + 1) :
        \A j \in 1..Len(Spelled[kw]) : lc[i + j - 1] = Spelled[kw][j] }

\* The places of content where keyword kw occurs, case ignored.
Positions(content, kw) == PositionsIn(ToLowerCase(content), kw)

KeywordsOccurring(content) ==
    LET lc == ToLowerCase(content)
    IN  {kw \in AllKeywords : PositionsIn(lc, kw) /= {}}

Contains(content, part) ==
    \E i \in 1..Len(content) :
        /\ i + Len(part) - 1 <= Len(content)
        /\ SubSeq(content, i, i + Len(part) - 1) = part

Keywords(matched) == {matched[i].keyword : i \in 1..Len(matched)}

\* C1: the confidence analyzeContent returns lies in [0, 1], whatever the
\* text and however many keyword occurrences it holds.
C1_ConfidenceInUnitInterval ==
    analysis.done => analysis.confidence >= 0 /\ analysis.confidence <= 1000

\* C1 witness: a text was scored whose weights add up to more than 1.
C1_Witness ==
    /\ analysis.done
    /\ Scanned(analysis.content).confidenceScore > 1000
    /\ analysis.confidence = 1000

\* C4: a text is classified Proactive exactly when a high-confidence
\* keyword occurs in it or at least two distinct keywords occur in it.
C4_ThresholdClassification ==
    analysis.done =>
        LET occurring == KeywordsOccurring(analysis.content)
        IN  analysis.isFinancingDetected <=>
               (occurring \cap HighKeywords /= {} \/ Cardinality(occurring) >= 2)

\* C4 witness: one standard keyword matched several times, and nothing
\* else: not detected.
C4_Witness ==
    /\ analysis.done
    /\ Len(analysis.matchedKeywords) = 1
    /\ analysis.matchedKeywords[1].count >= 2
    /\ ~analysis.matchedKeywords[1].isHighConfidence
    /\ ~analysis.isFinancingDetected

\* The text of scenario D: "quote now" once, "get pricing" once, and no
\* keyword occurrence outside these two phrases.
ScenarioD(content) ==
    /\ Cardinality(Positions(content, "quote now")) = 1
    /\ Cardinality(Positions(content, "get pricing")) = 1
    /\ \A kw \in KeywordsOccurring(content) :
          /\ Cardinality(Positions(content, kw)) = 1
          /\ \/ Positions(Chars("quote now"), kw) /= {}
             \/ Positions(Chars("get pricing"), kw) /= {}

\* C6 as stated: scenario D gives two MatchRecords, confidence 0.55 and
\* Proactive.
C6_TwoRecords ==
    analysis.done /\ ScenarioD(analysis.content) =>
        /\ Len(analysis.matchedKeywords) = 2
        /\ analysis.confidence = 550
        /\ analysis.isFinancingDetected

\* C6 amended: scenario D gives three MatchRecords, in taxonomy order
\* "quote" (inside "quote now", standard), "quote now" (high-confidence),
\* "get pricing" (standard), confidence 0.15 + 0.4 + 0.15 = 0.7, Proactive.
C6_ThreeRecords ==
    analysis.done /\ ScenarioD(analysis.content) =>
        /\ analysis.matchedKeywords =
              << [keyword |-> "quote", count |-> 1, isHighConfidence |-> FALSE],
                 [keyword |-> "quote now", count |-> 1, isHighConfidence |-> TRUE],
                 [keyword |-> "get pricing", count |-> 1, isHighConfidence |-> FALSE] >>
        /\ analysis.confidence = 700
        /\ analysis.isFinancingDetected

\* C6 witness: a text of scenario D was scored.
C6_Witness == analysis.done /\ ScenarioD(analysis.content)

\* A request whose fetch failed has been answered.
FetchFailed == pc = "done" /\ data.failure /= ""

MalformedUrls == {Chars("a.io"), Chars("not a url"), Chars("http://")}

RejectedRequest ==
    req.method /= "" /\ (~req.hasUrl \/ req.url = <<>> \/ req.url \in MalformedUrls)

\* C3: while a request with a missing or malformed URL is the one being
\* served it stands answered with 400, analyzeWebsite was not called and
\* nothing was fetched.
C3_RejectedBeforeFetch ==
    RejectedRequest =>
        /\ pc = "done"
        /\ response.status = 400
        /\ calls = 0
        /\ fetched = <<>>
        /\ ~data.ok /\ data.failure = ""
        /\ ~result.returned /\ result.thrown = ""

\* C3 witness: a request with a malformed URL was rejected.
C3_Witness ==
    /\ pc = "done"
    /\ req.hasUrl /\ req.url = Chars("not a url")
    /\ response.status = 400
    /\ response.error = "Invalid URL format"

\* C5 as stated: matchedKeywords of a returned result is non-empty if and
\* only if its classification is Proactive.
C5_NonEmptyIffProactive ==
    result.returned =>
        (result.matchedKeywords /= <<>> <=> result.classification = "Proactive")

\* C5 amended: the classification is Proactive if and only if
\* matchedKeywords is non-empty and holds a high-confidence keyword or at
\* least two keywords; a single standard keyword is returned as Non User.
C5_ProactiveIffEnoughMatches ==
    result.returned =>
        (result.classification = "Proactive" <=>
            /\ result.matchedKeywords /= <<>>
            /\ \/ \E i \in 1..Len(result.matchedKeywords) :
                     result.matchedKeywords[i].isHighConfidence
               \/ Len(result.matchedKeywords) >= 2)

\* C5 witness: a result with one standard keyword, returned as Non User.
C5_Witness ==
    /\ result.returned
    /\ Len(result.matchedKeywords) = 1
    /\ ~result.matchedKeywords[1].isHighConfidence
    /\ result.classification = "Non User"
    /\ response.status = 200

ScenarioAText ==
    Chars("Apply Now ") \o <<"U+2014">> \o Chars(" financing available")

\* C7: for a page whose body text is "Apply Now -- financing available"
\* with an em dash, the normalized text contains "apply now - financing
\* available", "apply now" and "financing" are among matchedKeywords, the
\* classification is Proactive and the confidence is at least 0.4.
C7_ScenarioA ==
    pc = "done" /\ data.ok /\ BodyText(data.markup) = ScenarioAText =>
        /\ result.returned
        /\ Contains(result.fullText, Chars("apply now - financing available"))
        /\ {"apply now", "financing"} \subseteq Keywords(result.matchedKeywords)
        /\ result.classification = "Proactive"
        /\ response.classification = "Proactive"
        /\ result.confidence >= 400

\* C7 witness: the page of scenario A was analyzed.
C7_Witness ==
    /\ pc = "done" /\ data.ok /\ BodyText(data.markup) = ScenarioAText
    /\ response.status = 200

ScenarioB ==
    /\ pc = "done" /\ data.ok
    /\ req.maxPages = 5
    /\ data.links = 3
    /\ KeywordsOccurring(BodyText(data.markup)) = {}

C10_NormalizeIdempotent ==
    normalized.done => Normalize(normalized.out) = normalized.out

\* C10 witness: a raw text that the chain changed, to something non-empty.
C10_Witness ==
    /\ normalized.done
    /\ normalized.out /= raw
    /\ normalized.out /= <<>>
    /\ \E i \in 1..Len(raw) : raw[i] \in UnicodeSpaces

\* The score analyzeContent reaches for content before Math.min.
Score(content) == Scanned(content).confidenceScore

\* An insertion after p characters of content splits no keyword occurrence
\* of content.
FreePlace(content, p) ==
    LET lc == ToLowerCase(content)
    IN  \A kw \in AllKeywords : \A i \in PositionsIn(lc, kw) :
            ~(i <= p /\ p <= i + Len(Spelled[kw]) - 2)

\* longer is shorter with the keyword fragment f put in after p characters.
InsertedAt(shorter, longer, f, p) ==
    /\ Len(longer) = Len(shorter) + Len(f)
    /\ longer = SubSeq(shorter, 1, p) \o f \o SubSeq(shorter, p + 1, Len(shorter))

\* C11 as stated: a text obtained from a scored text by adding one more
\* occurrence of a keyword, anywhere, scores at least as much before the cap.
C11_AddingNeverLowers ==
    analysis.done =>
        \A f \in KeywordFragments, p \in 0..Len(analysis.content) :
            InsertedAt(analysis.content, Flatten(text), f, p) =>
                Score(Flatten(text)) >= Score(analysis.content)

\* C11 amended: a text obtained from a scored text by adding one more
\* occurrence of a keyword at a place inside no keyword occurrence of the
\* text (its start and its end are such places) scores at least as much
\* before the cap.
C11_AddingOutsideNeverLowers ==
    analysis.done =>
        \A f \in KeywordFragments, p \in 0..Len(analysis.content) :
            /\ InsertedAt(analysis.content, Flatten(text), f, p)
            /\ FreePlace(analysis.content, p)
            => Score(Flatten(text)) >= Score(analysis.content)

\* C11 witness: a keyword was added between two characters of a scored text
\* that holds a keyword, outside its occurrences, and the score rose.
C11_Witness ==
    /\ analysis.done
    /\ analysis.matchedKeywords /= <<>>
    /\ \E f \in KeywordFragments : \E p \in 1..(Len(analysis.content) - 1) :
            /\ InsertedAt(analysis.content, Flatten(text), f, p)
            /\ FreePlace(analysis.content, p)
            /\ Score(Flatten(text)) > Score(analysis.content)

\* What a call returns when it is the only call: the result of the one
\* request of Spec for the same outcome of axios.get.
AloneResult(d) ==
    IF d.ok THEN ResultFor(Content(d)) ELSE ThrownOnFailure(d.failure)

\* C12: under every interleaving of the calls at their suspension points,
\* each completed call holds the result it would return run alone for what
\* its own axios.get gave, and the analyzer instance still holds the keyword
\* arrays the constructor set.
C12_CallsIndependent ==
    /\ analyzer = Constructed
    /\ \A c \in Calls :
           inflight[c].pc = "returned" =>
               inflight[c].result = AloneResult(inflight[c].data)

\* C12 witness: a call completed with a Proactive result while another call
\* was in flight, and another call is suspended holding a different content
\* or a failure.
C12_Witness ==
    \E c \in Calls : \E d \in Calls \ {c} :
        /\ inflight[c].pc = "returned" /\ inflight[c].overlapped
        /\ inflight[c].result.classification = "Proactive"
        /\ inflight[d].pc \in {"fetched", "failed"}
        /\ inflight[d].content /= inflight[c].content

\* The largest number of occurrences of kw in lc no two of which overlap.
OccurrenceCount(lc, kw) ==
    LET places == PositionsIn(lc, kw)
        Apart(T) == \A a \in T : \A b \in T : a < b => a + Len(Spelled[kw]) <= b
    IN  IF places = {} THEN 0
        ELSE CHOOSE n \in 1..Cardinality(places) :
                /\ \E T \in SUBSET places : Apart(T) /\ Cardinality(T) = n
                /\ \A T \in SUBSET places : Apart(T) => Cardinality(T) <= n

\* The weight the statement gives a keyword, in thousandths.
StatedWeight(kw) == IF kw \in HighKeywords THEN 400 ELSE 150

RECURSIVE WeightedSum(_, _)
WeightedSum(matched, i) ==
    IF i > Len(matched) THEN 0
    ELSE StatedWeight(matched[i].keyword) * matched[i].count
            + WeightedSum(matched, i + 1)

\* C13: for every scored text, matchedKeywords holds, in taxonomy order,
\* exactly one record for each keyword that occurs in the text as a
\* substring (word boundaries and case ignored), with the number of its
\* non-overlapping occurrences, at least 1, as count and with its
\* high-confidence flag, and the confidence is the smaller of 1 and the sum
\* of 0.4 x count over the high-confidence records and 0.15 x count over
\* the others.
C13_TierScoring ==
    analysis.done =>
        LET lc == ToLowerCase(analysis.content)
            matched == analysis.matchedKeywords
            hits == {k \in 1..Len(financingKeywords) :
                        PositionsIn(lc, financingKeywords[k]) /= {}}
            Rank(k) == Cardinality({j \in hits : j <= k})
        IN  /\ Len(matched) = Cardinality(hits)
            /\ \A k \in hits :
                   /\ matched[Rank(k)].keyword = financingKeywords[k]
                   /\ matched[Rank(k)].count
                         = OccurrenceCount(lc, financingKeywords[k])
                   /\ matched[Rank(k)].count >= 1
                   /\ matched[Rank(k)].isHighConfidence
                         = (financingKeywords[k] \in HighKeywords)
            /\ analysis.confidence = Min(1000, WeightedSum(matched, 1))

\* C13 witness: a scored text in which a keyword occurs twice with no word
\* boundary between the occurrences, with a high-confidence and a standard
\* record and a sum below 1.
C13_Witness ==
    /\ analysis.done
    /\ Contains(analysis.content, Chars("loanloan"))
    /\ \E i \in 1..Len(analysis.matchedKeywords) :
           /\ analysis.matchedKeywords[i].keyword = "loan"
           /\ analysis.matchedKeywords[i].count = 2
    /\ \E i \in 1..Len(analysis.matchedKeywords) :
           analysis.matchedKeywords[i].isHighConfidence
    /\ analysis.confidence < 1000
    /\ analysis.confidence = WeightedSum(analysis.matchedKeywords, 1)

============================================================================
